---- MODULE Spec2Model ----
(***************************************************************************)
(* Model of timezones/fields.py: LocalizedDateTimeField, its access        *)
(* descriptor LocalizedDateTimeFieldProperty, and the TimeZoneField used   *)
(* as the sibling attribute a per-instance timezone function reads.        *)
(*                                                                         *)
(* Time is counted in hours.  A datetime is a record                       *)
(*   [k, wall, tz]  with k = "dt", wall the wall-clock hour and tz either  *)
(*   "naive" or the name of the zone it carries.  None, a raised           *)
(*   exception and "no entry in obj.__dict__" use the same record shape.   *)
(* A timezone context is a record [k, v, n, r]:                            *)
(*   k = "none"  None (the constructor default timezone=None)              *)
(*   k = "text"  a string, v its content                                   *)
(*   k = "tz"    a pytz timezone object, v its zone name                   *)
(*   k = "func"  a plain function with func_code.co_argcount = n;          *)
(*               r = "text": it returns the string v,                      *)
(*               r = "tz":   it returns the zone object v,                 *)
(*               r = "attr": it is lambda i: i.timezone                    *)
(***************************************************************************)
EXTENDS Integers, FiniteSets, Sequences, TLC

VARIABLES
    ctx,        \* field.timezone, set by LocalizedDateTimeField.__init__
    default_tz, \* module-level default_tz (settings.TIME_ZONE)
    stored,     \* obj.__dict__[field.name]
    cache,      \* obj.__dict__[cache_attname]
    sibling,    \* obj.__dict__["timezone"], a TimeZoneField on the same model
    lastRet,    \* what the last descriptor read returned or raised
    calls,      \* number of invocations of the timezone function so far
    loaded,     \* TRUE while the instance holds the value loaded from the row
    db,         \* the persisted row: [dt, sib]
    saveIn,     \* last value passed to get_db_prep_save
    saveOut,    \* what get_db_prep_save handed to the column serialization
    lkIn,       \* last value passed to get_db_prep_lookup
    lkType,     \* its lookup_type
    lkOut       \* what get_db_prep_lookup handed on, or raised

vars == <<ctx, default_tz, stored, cache, sibling, lastRet, calls, loaded, db,
          saveIn, saveOut, lkIn, lkType, lkOut>>

descVars == <<stored, cache, sibling, lastRet, calls, loaded, db, saveIn, saveOut>>
prepVars == <<lkIn, lkType, lkOut>>

----
\* Bounds of the model.

\* Input wall-clock values are the multiples of 12 hours up to 12 * MaxWall.
MaxWall == 1
\* The timezone function is invoked at most MaxCalls times in a behaviour.
MaxCalls == 2
\* A row is reloaded only while its wall-clock value is within 12 * MaxDrift.
MaxDrift == 2

----
\* Values.

None == [k |-> "none", wall |-> 0, tz |-> "naive"]
Absent == [k |-> "absent", wall |-> 0, tz |-> "naive"]
Raise(e) == [k |-> "raise", wall |-> 0, tz |-> e]
DT(w, z) == [k |-> "dt", wall |-> w, tz |-> z]

NoCtx == [k |-> "none", v |-> "-", n |-> 0, r |-> "-"]
Text(s) == [k |-> "text", v |-> s, n |-> 0, r |-> "-"]
Tz(z) == [k |-> "tz", v |-> z, n |-> 0, r |-> "-"]
Func0(r, s) == [k |-> "func", v |-> s, n |-> 0, r |-> r]
Func1 == [k |-> "func", v |-> "-", n |-> 1, r |-> "attr"]
Unset == [k |-> "unset", v |-> "-", n |-> 0, r |-> "-"]
CtxRaise(e) == [k |-> "raise", v |-> e, n |-> 0, r |-> "-"]

\* pytz.all_timezones_set, cut down to three zones.
all_timezones_set == {"UTC", "America/New_York", "Asia/Tokyo"}

\* An identifier that is not in the timezone database.
Bogus == "Mars/Olympus"

\* UTC offset of a zone in hours (New York on daylight time, as on 2023-06-01).
utcoffset(z) ==
    CASE z = "UTC" -> 0
      [] z = "America/New_York" -> 0 - 4
      [] z = "Asia/Tokyo" -> 9

IsDatetime(x) == x.k = "dt"
IsNaive(x) == x.k = "dt" /\ x.tz = "naive"

\* pytz.timezone(name): the zone object, or UnknownTimeZoneError.
pytz_timezone(name) ==
    IF name \in all_timezones_set THEN Tz(name) ELSE CtxRaise("UnknownTimeZoneError")

\* tzinfo.localize(dt): attach the zone, keep the wall clock.
localize(z, dt) == DT(dt.wall, z)

\* astimezone that swaps the zone and keeps the wall clock.
astimezone_keepwall(dt, z) == DT(dt.wall, z)

\* dt.astimezone(tzinfo): keep the instant, re-express the wall clock.
astimezone(dt, z) == DT(dt.wall - utcoffset(dt.tz) + utcoffset(z), z)

----
\* Inputs.

Walls == {12 * i : i \in 0..MaxWall}

\* Values assigned to the datetime attribute: None, datetimes, a date (wall
\* holds the day number), a text in a datetime format, a text in none.
SetInputs ==
    {None}
    \cup {DT(w, z) : w \in Walls, z \in {"naive", "UTC", "Asia/Tokyo"}}
    \cup {[k |-> "date", wall |-> 1, tz |-> "naive"],
          [k |-> "text", wall |-> 12, tz |-> "naive"],
          [k |-> "garbage", wall |-> 0, tz |-> "naive"]}

\* Values assigned to the sibling TimeZoneField attribute.
SiblingInputs == {NoCtx, Text("Asia/Tokyo"), Text(Bogus), Tz("America/New_York")}

\* The timezone= argument of LocalizedDateTimeField(...).
TimezoneArgs ==
    {NoCtx, Text("America/New_York"), Text(Bogus), Tz("Asia/Tokyo"),
     Func0("text", "America/New_York"), Func0("text", Bogus),
     Func0("tz", "Asia/Tokyo"), Func1}

\* Values handed to get_db_prep_save / get_db_prep_lookup by the framework.
PrepInputs == {None} \cup {DT(w, z) : w \in Walls, z \in {"naive"} \cup all_timezones_set}

\* Values handed to get_db_prep_save beside the ones save() reads from the
\* instance (which always carry an offset or are None).
SaveInputs == {None, DT(12, "America/New_York")} \cup {DT(w, "naive") : w \in Walls}

LookupTypes == {"exact", "gt", "lte"}

----
\* LocalizedDateTimeField.__init__: a string naming a known zone becomes the
\* zone object, anything else is kept as given (smart_str gives the byte
\* string of the same ASCII content, equal to the text it came from).
FieldInit(timezone) ==
    IF timezone.k = "text" /\ timezone.v \in all_timezones_set
    THEN pytz_timezone(timezone.v)
    ELSE timezone

\* DateTimeField.to_python, as called by __set__.
to_python(value) ==
    CASE value.k = "none" -> None
      [] value.k = "dt" -> value
      [] value.k = "date" -> DT(24 * value.wall, "naive")
      [] value.k = "text" -> DT(value.wall, "naive")
      [] OTHER -> Raise("ValidationError")

\* TimeZoneField.to_python: CharField.to_python gives the text of the value
\* (None stays None), pytz.timezone turns the text into the zone object.
TimeZoneField_to_python(value) ==
    IF value.k = "none" THEN NoCtx ELSE pytz_timezone(value.v)

\* TimeZoneField.get_db_prep_save: the zone's name as text, None stays None.
TimeZoneField_get_db_prep_save(value) ==
    IF value.k = "none" THEN NoCtx ELSE Text(value.v)

----
\* LocalizedDateTimeFieldProperty.__get__

\* The callable's argument count; the contexts here are plain functions,
\* which have func_code.
argcount(timezone) == timezone.n

\* timezone(obj) or timezone(): the function's result, TypeError when the
\* number of arguments passed is not the number it takes.
CallTimezone(timezone, nargs, obj_timezone) ==
    IF nargs # timezone.n THEN CtxRaise("TypeError")
    ELSE CASE timezone.r = "text" -> Text(timezone.v)
           [] timezone.r = "tz" -> Tz(timezone.v)
           [] OTHER -> obj_timezone

\* Lines 71-83: a callable context is replaced by its result.
ResolveCallable(timezone, obj_timezone) ==
    IF timezone.k = "func"
    THEN CallTimezone(timezone, IF argcount(timezone) = 1 THEN 1 ELSE 0, obj_timezone)
    ELSE timezone

\* ResolveTzinfo without the try/except around pytz.timezone.
ResolveTzinfo_noexcept(timezone, dflt) ==
    IF timezone.k = "text" THEN pytz_timezone(timezone.v) ELSE timezone

\* Lines 85-91: a string is looked up, an unknown one gives default_tz;
\* anything else is used as the tzinfo as it is.
ResolveTzinfo(timezone, dflt) ==
    IF timezone.k = "text"
    THEN LET z == pytz_timezone(timezone.v)
         IN IF z.k = "raise" THEN Tz(dflt) ELSE z
    ELSE timezone

\* Localized with the naive/aware distinction dropped: always localize().
Localized_replace(dt, tzinfo) ==
    IF ~IsDatetime(dt) THEN dt
    ELSE IF tzinfo.k = "tz" THEN localize(tzinfo.v, dt) ELSE Raise("AttributeError")

\* Localized without the isinstance check: a stored None has no tzinfo.
Localized_nocheck(dt, tzinfo) ==
    IF ~IsDatetime(dt) THEN Raise("AttributeError")
    ELSE IF IsNaive(dt)
         THEN IF tzinfo.k = "tz" THEN localize(tzinfo.v, dt) ELSE Raise("AttributeError")
         ELSE IF tzinfo.k = "tz" THEN astimezone(dt, tzinfo.v) ELSE Raise("TypeError")

\* Lines 93-99: the value computed from the stored one.  A stored value that
\* is no datetime is returned as it is; None as tzinfo has no localize() and
\* is rejected by astimezone().
Localized(dt, tzinfo) ==
    IF ~IsDatetime(dt) THEN dt
    ELSE IF tzinfo.k = "raise" THEN Raise(tzinfo.v)
    ELSE IF IsNaive(dt)
         THEN IF tzinfo.k = "tz" THEN localize(tzinfo.v, dt) ELSE Raise("AttributeError")
         ELSE IF tzinfo.k = "tz" THEN astimezone(dt, tzinfo.v) ELSE Raise("TypeError")

\* Whether the read stores its result as the cache (lines 94-99).
Caches(dt, val) == IsDatetime(dt) /\ val.k = "dt"

\* DescGet without the test for a cache entry: every read recomputes.
DescGet_recompute(timezone, dflt, dt, cached, obj_timezone, n) ==
    LET t == IF timezone.k = "func"
             THEN CallTimezone(timezone, timezone.n, obj_timezone)
             ELSE timezone
        tzinfo == IF t.k = "text"
                  THEN (IF t.v \in all_timezones_set THEN Tz(t.v) ELSE Tz(dflt))
                  ELSE t
        val == IF ~IsDatetime(dt) THEN dt
               ELSE IF tzinfo.k # "tz" THEN Raise("AttributeError")
               ELSE IF IsNaive(dt) THEN localize(tzinfo.v, dt)
               ELSE astimezone(dt, tzinfo.v)
    IN [ret |-> val,
        cache |-> IF val.k = "dt" THEN val ELSE Absent,
        calls |-> IF timezone.k = "func" THEN n + 1 ELSE n]

\* The whole read: returned value, cache entry and number of calls after it.
DescGet(timezone, dflt, dt, cached, obj_timezone, n) ==
    IF cached.k # "absent"
    THEN [ret |-> cached, cache |-> cached, calls |-> n]
    ELSE LET t == ResolveCallable(timezone, obj_timezone)
             tzinfo == IF t.k = "raise" THEN t ELSE ResolveTzinfo(t, dflt)
             val == IF t.k = "raise" THEN Raise(t.v) ELSE Localized(dt, tzinfo)
         IN [ret |-> val,
             cache |-> IF t.k # "raise" /\ Caches(dt, val) THEN val ELSE Absent,
             calls |-> IF timezone.k = "func" THEN n + 1 ELSE n]

\* __set__ without the deletion of the cache entry.
CacheAfterSet_keep(cached) == cached

\* LocalizedDateTimeFieldProperty.__set__: the cache entry after a write.
CacheAfterSet(cached) == Absent

----
\* get_db_prep_save that attaches the reference zone to every value.
get_db_prep_save_replace(value, dflt) ==
    IF value.k # "none" THEN localize(dflt, value) ELSE value

\* LocalizedDateTimeField.get_db_prep_save: the value handed to
\* DateTimeField.get_db_prep_save.
get_db_prep_save(value, dflt) ==
    IF value.k # "none"
    THEN IF value.tz = "naive" THEN localize(dflt, value) ELSE astimezone(value, dflt)
    ELSE value

\* LocalizedDateTimeField.get_db_prep_lookup: the value handed to
\* DateTimeField.get_db_prep_lookup; None has no attribute tzinfo.
get_db_prep_lookup(lookup_type, value, dflt) ==
    IF value.k = "none" THEN Raise("AttributeError")
    ELSE IF value.tz = "naive" THEN localize(dflt, value) ELSE astimezone(value, dflt)

\* What the datetime column holds and returns for a prepared value: the
\* wall-clock value in the reference timezone, without an offset.
DbColumn(value) == IF value.k = "dt" THEN DT(value.wall, "naive") ELSE value

----
\* State machine.

\* The model class has the sibling TimeZoneField exactly when the timezone
\* function reads it.
HasSibling == ctx.r = "attr"

\* Model.__init__ has assigned every field of the instance.
Ready == stored.k # "unset" /\ (HasSibling => sibling.k # "unset")

NoRow == [dt |-> Absent, sib |-> Unset]

Init ==
    /\ \E timezone \in TimezoneArgs : ctx = FieldInit(timezone)
    /\ default_tz \in all_timezones_set
    /\ stored = [k |-> "unset", wall |-> 0, tz |-> "naive"]
    /\ cache = Absent
    /\ sibling = Unset
    /\ lastRet = Absent
    /\ calls = 0
    /\ loaded = FALSE
    /\ db = NoRow
    /\ saveIn = Absent
    /\ saveOut = Absent
    /\ lkIn = Absent
    /\ lkType = "-"
    /\ lkOut = Absent

\* __set__ that localizes on the setter: the timezone function runs at the
\* write, on the instance as it is then.
Set_eager(value) ==
    LET v == to_python(value)
        g == DescGet(ctx, default_tz, v, Absent, sibling, calls)
    IN /\ g.calls <= MaxCalls
       /\ IF v.k = "raise"
          THEN UNCHANGED <<stored, cache, loaded, calls>>
          ELSE /\ stored' = v
               /\ cache' = g.cache
               /\ calls' = g.calls
               /\ loaded' = FALSE
       /\ UNCHANGED <<ctx, default_tz, sibling, lastRet, db, saveIn, saveOut>>
       /\ UNCHANGED <<lkIn, lkType, lkOut>>

\* obj.field = value (also each assignment made by Model.__init__):
\* LocalizedDateTimeFieldProperty.__set__.  to_python raising leaves the
\* instance as it was.
Set(value) ==
    LET v == to_python(value)
    IN /\ IF v.k = "raise"
          THEN UNCHANGED <<stored, cache, loaded>>
          ELSE /\ stored' = v
               /\ cache' = CacheAfterSet(cache)
               /\ loaded' = FALSE
       /\ UNCHANGED <<ctx, default_tz, sibling, lastRet, calls, db, saveIn, saveOut>>
       /\ UNCHANGED prepVars

\* obj.timezone = value on the sibling TimeZoneField (SubfieldBase runs
\* to_python on every assignment); an unknown name raises and changes nothing.
SetSibling(value) ==
    /\ HasSibling
    /\ LET v == TimeZoneField_to_python(value)
       IN sibling' = IF v.k = "raise" THEN sibling ELSE v
    /\ UNCHANGED <<ctx, default_tz, stored, cache, lastRet, calls, loaded, db, saveIn, saveOut>>
    /\ UNCHANGED prepVars

\* obj.field: LocalizedDateTimeFieldProperty.__get__.
Get ==
    /\ Ready
    /\ LET g == DescGet(ctx, default_tz, stored, cache, sibling, calls)
       IN /\ g.calls <= MaxCalls
          /\ lastRet' = g.ret
          /\ cache' = g.cache
          /\ calls' = g.calls
    /\ UNCHANGED <<ctx, default_tz, stored, sibling, loaded, db, saveIn, saveOut>>
    /\ UNCHANGED prepVars

\* obj.save(): pre_save reads the attribute through the descriptor, the value
\* read goes through get_db_prep_save into the row, next to the sibling's.
Save ==
    /\ Ready
    /\ LET g == DescGet(ctx, default_tz, stored, cache, sibling, calls)
       IN /\ g.calls <= MaxCalls
          /\ lastRet' = g.ret
          /\ cache' = g.cache
          /\ calls' = g.calls
          /\ IF g.ret.k = "raise"
             THEN UNCHANGED <<saveIn, saveOut, db>>
             ELSE /\ saveIn' = g.ret
                  /\ saveOut' = get_db_prep_save(g.ret, default_tz)
                  /\ db' = [dt |-> DbColumn(saveOut'),
                            sib |-> IF HasSibling
                                    THEN TimeZoneField_get_db_prep_save(sibling)
                                    ELSE Unset]
    /\ UNCHANGED <<ctx, default_tz, stored, sibling, loaded>>
    /\ UNCHANGED prepVars

\* A fresh instance built from the row: Model.__init__ assigns the column
\* values through __set__ into an empty obj.__dict__.
Reload ==
    /\ db.dt.k # "absent"
    /\ db.dt.k = "dt" => (db.dt.wall <= 12 * MaxDrift /\ db.dt.wall >= 0 - 12 * MaxDrift)
    /\ stored' = to_python(db.dt)
    /\ cache' = CacheAfterSet(Absent)
    /\ sibling' = IF HasSibling THEN TimeZoneField_to_python(db.sib) ELSE sibling
    /\ loaded' = TRUE
    /\ UNCHANGED <<ctx, default_tz, lastRet, calls, db, saveIn, saveOut>>
    /\ UNCHANGED prepVars

Next ==
    \/ \E value \in SetInputs : Set(value)
    \/ \E value \in SiblingInputs : SetSibling(value)
    \/ Get
    \/ Save
    \/ Reload

Spec == Init /\ [][Next]_vars

\* The field's two preparation hooks applied to values of the framework's
\* choosing.
PrepSave(value) ==
    /\ saveIn' = value
    /\ saveOut' = get_db_prep_save(value, default_tz)
    /\ UNCHANGED <<ctx, default_tz, stored, cache, sibling, lastRet, calls, loaded, db>>
    /\ UNCHANGED prepVars

PrepLookup(lookup_type, value) ==
    /\ lkIn' = value
    /\ lkType' = lookup_type
    /\ lkOut' = get_db_prep_lookup(lookup_type, value, default_tz)
    /\ UNCHANGED <<ctx, default_tz>>
    /\ UNCHANGED descVars

NextPrep ==
    \/ \E value \in PrepInputs : PrepSave(value)
    \/ \E lookup_type \in LookupTypes, value \in PrepInputs : PrepLookup(lookup_type, value)

SpecPrep == Init /\ [][NextPrep]_vars

NextSave ==
    \/ \E value \in SetInputs : Set(value)
    \/ \E value \in SiblingInputs : SetSibling(value)
    \/ Get
    \/ Save
    \/ \E value \in SaveInputs : PrepSave(value)

\* The instance's life without reloads, with get_db_prep_save also applied to
\* values of the framework's choosing.
SpecSave == Init /\ [][NextSave]_vars

----
\* Vocabulary of the properties.

\* A descriptor read: the attribute access itself, or the one save() makes.
ReadStep == Get \/ Save

\* A write that to_python accepts.
WriteStep == \E value \in SetInputs : Set(value) /\ to_python(value).k # "raise"

\* The zone name a context value stands for; "none" when it is neither a
\* text nor a zone object.
ZoneOf(t) ==
    CASE t.k = "tz" -> t.v
      [] t.k = "text" -> IF t.v \in all_timezones_set THEN t.v ELSE default_tz
      [] OTHER -> "none"

\* resolved(Z): the zone the field's context resolves to for the instance in
\* the current state.
Resolved ==
    CASE ctx.k \in {"tz", "text"} -> ZoneOf(ctx)
      [] ctx.k = "func" /\ ctx.r = "text" -> ZoneOf(Text(ctx.v))
      [] ctx.k = "func" /\ ctx.r = "tz" -> ctx.v
      [] ctx.k = "func" /\ ctx.r = "attr" -> ZoneOf(sibling)
      [] OTHER -> "none"

\* x is dt localized (dt naive) or converted (dt carries an offset) to zone z.
IsLocalizedTo(x, dt, z) ==
    /\ x.k = "dt"
    /\ x.tz = z
    /\ dt.tz = "naive" => x.wall = dt.wall
    /\ dt.tz # "naive" => x.wall - utcoffset(z) = dt.wall - utcoffset(dt.tz)

\* The context is a text, or a function returning a text, that names no zone.
UnknownText ==
    /\ ctx.r \in {"-", "text"}
    /\ ctx.k \in {"text", "func"}
    /\ ctx.v \notin all_timezones_set

----
\* C1: every accepted write leaves no cache entry; a cache entry that is
\* present was derived from the stored timestamp of the same state; a read
\* returns a value derived from the stored timestamp of the state it runs in,
\* that is from the latest write.
C1_Consistent ==
    cache.k # "absent" =>
        /\ IsDatetime(stored)
        /\ IsLocalizedTo(cache, stored, cache.tz)

C1_Step ==
    /\ WriteStep => cache' = Absent
    /\ (ReadStep /\ lastRet'.k = "dt") => IsLocalizedTo(lastRet', stored, lastRet'.tz)

\* C1: in every state the cache entry is consistent with the stored
\* timestamp, every accepted write drops it, every read reflects the latest write.
C1_Theorem == []C1_Consistent /\ [][C1_Step]_vars

\* Two cache-filling reads with a write between them, the second reflecting
\* the date written last.
C1_Witness ==
    /\ calls = 2
    /\ stored = DT(24, "naive")
    /\ cache = DT(24, "America/New_York")
    /\ lastRet = cache
    /\ db = NoRow

----
\* C2 as claimed: a cache entry that is present equals the stored timestamp
\* localized/converted to the zone the context resolves to in that state
\* (stated for the states in which the context resolves to a zone).
C2_Original ==
    (cache.k # "absent" /\ Resolved # "none") => IsLocalizedTo(cache, stored, Resolved)

\* C2 as amended: a cache entry that is present equals the stored timestamp
\* localized/converted to the zone the cached value carries, which is the zone
\* the context resolved to at the read that created the entry; for a context
\* that does not read the instance this is the zone it resolves to now.
C2_Inv ==
    cache.k # "absent" =>
        /\ cache.tz \in all_timezones_set
        /\ IsLocalizedTo(cache, stored, cache.tz)
        /\ ctx.r # "attr" => cache.tz = Resolved

C2_Fill ==
    (cache.k = "absent" /\ cache'.k # "absent") =>
        /\ ReadStep
        /\ IsLocalizedTo(cache', stored', Resolved')

\* C2 (amended): the cache entry is the stored timestamp in the zone resolved
\* at the read that created it.
C2_Theorem == []C2_Inv /\ [][C2_Fill]_vars

\* A cache entry made while instance.timezone was New York, the attribute
\* since set to Tokyo.
C2_Witness ==
    /\ ctx = Func1
    /\ sibling = Tz("Asia/Tokyo")
    /\ stored = DT(12, "UTC")
    /\ cache = DT(8, "America/New_York")

----
\* C3: a read with no cache entry and a datetime stored returns, and caches,
\* the stored value localized (naive) or converted (offset-carrying) to the
\* resolved zone, and leaves the stored value as it is.
C3_Step ==
    (ReadStep /\ cache.k = "absent" /\ IsDatetime(stored) /\ Resolved # "none") =>
        /\ IsLocalizedTo(lastRet', stored, Resolved)
        /\ cache' = lastRet'
        /\ stored' = stored

\* C3: every read without a cache entry localizes or converts as stated.
C3_Theorem == [][C3_Step]_vars

\* An offset-carrying value converted to the zone a one-argument function
\* took from the instance.
C3_Witness ==
    /\ ctx = Func1
    /\ sibling = Tz("America/New_York")
    /\ stored = DT(12, "Asia/Tokyo")
    /\ cache = DT(0 - 1, "America/New_York")
    /\ lastRet = cache

----
\* C4: a read in the cached state returns the cache entry, does not invoke
\* the timezone function and changes neither the stored value nor the cache.
C4_Step ==
    (ReadStep /\ cache.k # "absent") =>
        /\ lastRet' = cache
        /\ calls' = calls
        /\ cache' = cache
        /\ stored' = stored

\* C4: every read in the cached state is idempotent and recomputes nothing.
C4_Theorem == [][C4_Step]_vars

\* The cached state of a field whose context is a function: the function has
\* run once, and every further read is a step from this state to itself.
C4_Witness ==
    /\ ctx = Func0("text", "America/New_York")
    /\ calls = 1
    /\ stored = DT(12, "naive")
    /\ cache = DT(12, "America/New_York")
    /\ lastRet = cache
    /\ saveIn = cache

----
\* C5: with a context that is, or returns, a text naming no zone, a read of
\* a stored datetime raises nothing and returns the value localized/converted
\* to default_tz, the same value as under the context default_tz itself.
C5_Step ==
    (ReadStep /\ cache.k = "absent" /\ IsDatetime(stored) /\ UnknownText) =>
        /\ IsLocalizedTo(lastRet', stored, default_tz)
        /\ lastRet' = DescGet(Tz(default_tz), default_tz, stored, cache, sibling, calls).ret

\* C5: every read under an unknown text context falls back to default_tz.
C5_Theorem == [][C5_Step]_vars

C5_Witness ==
    /\ ctx = Func0("text", Bogus)
    /\ default_tz = "America/New_York"
    /\ stored = DT(12, "UTC")
    /\ lastRet = DT(8, "America/New_York")
    /\ cache = lastRet

----
\* C6: get_db_prep_save hands on None for None, the same wall clock with the
\* reference zone for a naive datetime, and the same instant in the reference
\* zone for an offset-carrying one.
C6_Theorem ==
    saveIn.k # "absent" =>
        CASE saveIn.k = "none" -> saveOut = None
          [] OTHER -> IsLocalizedTo(saveOut, saveIn, default_tz)

\* Naive 12:00 written under New York, read as 12:00-04:00, saved as
\* 16:00+00:00.
C6_Witness ==
    /\ ctx = Tz("America/New_York")
    /\ default_tz = "UTC"
    /\ stored = DT(12, "naive")
    /\ lastRet = DT(12, "America/New_York")
    /\ saveIn = lastRet
    /\ saveOut = DT(16, "UTC")
    /\ db.dt = DT(16, "naive")

----
\* C7 as claimed: get_db_prep_lookup gives for a value what get_db_prep_save
\* gives for the same value.
C7_Original ==
    (lkIn.k # "absent" /\ lkIn = saveIn) => lkOut = saveOut

----
\* C8: a read while the stored value is no datetime returns it unchanged and
\* creates no cache entry; no cache entry exists while None is stored.
C8_Step ==
    (ReadStep /\ ~IsDatetime(stored)) =>
        /\ lastRet' = stored
        /\ cache' = Absent
        /\ stored' = stored

\* C8: a stored value that is no datetime is passed through and never cached.
C8_Theorem == [](~IsDatetime(stored) => cache = Absent) /\ [][C8_Step]_vars

\* None stored and read twice, the function invoked by both reads.
C8_Witness ==
    /\ ctx = Func1
    /\ sibling = NoCtx
    /\ stored = None
    /\ lastRet = None
    /\ cache = Absent
    /\ calls = 2

----
\* C9: no write invokes the timezone function; only a read with no cache
\* entry does, and it sees instance.timezone as it is at that read.
C9_Step ==
    /\ (\E value \in SetInputs : Set(value)) => calls' = calls
    /\ (\E value \in SiblingInputs : SetSibling(value)) => calls' = calls
    /\ calls' # calls => (ReadStep /\ cache.k = "absent")
    /\ (ReadStep /\ cache.k = "absent" /\ ctx = Func1 /\ IsDatetime(stored)
            /\ sibling.k = "tz") =>
         IsLocalizedTo(lastRet', stored, sibling.v)

\* C9: the timezone function runs only in reads without a cache entry.
C9_Theorem == [][C9_Step]_vars

\* instance.timezone = Asia/Tokyo, naive 00:00 written, first read.
C9_Witness ==
    /\ ctx = Func1
    /\ sibling = Tz("Asia/Tokyo")
    /\ stored = DT(0, "naive")
    /\ lastRet = DT(0, "Asia/Tokyo")
    /\ cache = lastRet
    /\ calls = 1
    /\ db = NoRow

----
\* C10 as claimed: a read on the instance reloaded from the row denotes the
\* instant that was persisted.
C10_Original ==
    (loaded /\ cache.k = "dt" /\ db.dt.k = "dt") =>
        cache.wall - utcoffset(cache.tz) = db.dt.wall - utcoffset(default_tz)

====
